---- MODULE Spec2Model ----
(***************************************************************************)
(* Request instrumentation of ddtrace.contrib.molten (patch.py) and        *)
(* ddtrace.contrib.pyramid (trace.py).                                     *)
(*                                                                         *)
(* Text values (status lines, resource names) are sequences of tokens, so  *)
(* that partition(), int() and "{} {}".format() are computed, not assumed. *)
(***************************************************************************)
EXTENDS Integers, Sequences, FiniteSets, TLC

\* ------------------------------------------------------------------ bounds
\* invocations of the start_response callable within one request
MaxEmit == 2
\* RendererHelper.render invocations within one request
MaxRender == 1
\* entries of each of app.middleware, injector.components, app.renderers
MaxList == 1

\* longest middleware / component / renderer list of an application when
\* construction is studied on its own
MaxBuilt == 2

\* the request workers of the server; each handles one request at a time
Workers == {"w1"}

\* ------------------------------------------------------------- text values
DigitChars == <<"0", "1", "2", "3", "4", "5", "6", "7", "8", "9">>

IsDigit(c) == \E i \in 1..10 : DigitChars[i] = c

DigitVal(c) == (CHOOSE i \in 1..10 : DigitChars[i] = c) - 1

\* str.partition(sep)[0]: the text before the first sep, all of it if none
RECURSIVE PartitionHead(_, _)
PartitionHead(s, sep) ==
    IF s = <<>> \/ Head(s) = sep THEN <<>>
    ELSE <<Head(s)>> \o PartitionHead(Tail(s), sep)

\* int(text) succeeds: an optional sign followed by one or more digits
IntBody(s) == IF s # <<>> /\ Head(s) \in {"+", "-"} THEN Tail(s) ELSE s

IsIntText(s) == IntBody(s) # <<>> /\ \A i \in 1..Len(IntBody(s)) : IsDigit(IntBody(s)[i])

RECURSIVE DigitsVal(_)
DigitsVal(s) ==
    IF s = <<>> THEN 0
    ELSE 10 * DigitsVal(SubSeq(s, 1, Len(s) - 1)) + DigitVal(s[Len(s)])

IntOf(s) == IF s # <<>> /\ Head(s) = "-" THEN 0 - DigitsVal(IntBody(s)) ELSE DigitsVal(IntBody(s))

\* str(n) for an integer n
RECURSIVE NatToStr(_)
NatToStr(n) ==
    IF n < 10 THEN <<DigitChars[n + 1]>>
    ELSE NatToStr(n \div 10) \o <<DigitChars[(n % 10) + 1]>>

IntToStr(n) == IF n < 0 THEN <<"-">> \o NatToStr(0 - n) ELSE NatToStr(n)

\* a status code value: an int, a str, or None
NoCode == [kind |-> "none", n |-> 0, s |-> <<>>]

IntCode(n) == [kind |-> "int", n |-> n, s |-> <<>>]

StrCode(s) == [kind |-> "str", n |-> 0, s |-> s]

\* what "{}".format(code) prints
CodeText(code) == IF code.kind = "int" THEN IntToStr(code.n) ELSE code.s

\* int(text): the integer, or ValueError
RaisedCode == [kind |-> "raise", n |-> 0, s |-> <<"ValueError">>]

IntOrRaise(text) == IF IsIntText(text) THEN IntCode(IntOf(text)) ELSE RaisedCode

\* the except ValueError clause left out: the ValueError of int() escapes
ParseCodeUncaught(status) == IntOrRaise(PartitionHead(status, " "))

\* _w_start_response, lines 122-127:
\*   code, _, _ = status.partition(" "); try: code = int(code) except ValueError: pass
ParseCode(status) ==
    LET code == PartitionHead(status, " ")
        parsed == IntOrRaise(code)
    IN  IF parsed = RaisedCode THEN StrCode(code) ELSE parsed

\* u"{} {}".format(method, x)
Format(method, text) == <<method, " ">> \o text

\* ------------------------------------------------------------------ inputs
Methods == {"GET", "POST"}

\* status lines handed to start_response
S200 == <<"2", "0", "0", " ", "O", "K">>

S404 == <<"4", "0", "4", " ", "N", "o", "t", " ", "F", "o", "u", "n", "d">>

SBad == <<"a", "b", "c", " ", "x">>

\* (status, headers, exc_info) triples the framework passes to start_response;
\* molten's App.__call__ always passes all three (line 121 unpacks exactly three)
ShimArgs ==
    { [status |-> S200, headers |-> "h1", exc_info |-> "None"],
      [status |-> S404, headers |-> "h1", exc_info |-> "None"],
      [status |-> SBad, headers |-> "h2", exc_info |-> "exc"] }

NoArgs == [status |-> <<>>, headers |-> "-", exc_info |-> "-"]

\* the outcome of a call: nothing yet, a returned value, or a raised exception
\* ("http" marks a pyramid HTTPException, which is also a response)
NoOut == [kind |-> "none", id |-> "-", code |-> 0, headers |-> "-"]

Ret(id) == [kind |-> "ret", id |-> id, code |-> 0, headers |-> "-"]

Resp(id, code, headers) == [kind |-> "ret", id |-> id, code |-> code, headers |-> headers]

HttpExc(id, code, headers) == [kind |-> "http", id |-> id, code |-> code, headers |-> headers]

Exc(id) == [kind |-> "exc", id |-> id, code |-> 0, headers |-> "-"]

Raised(out) == out.kind \in {"http", "exc"}

\* what the underlying start_response does with a call
EmitOuts == {Ret("write"), Exc("AssertionError")}

\* what molten's App.__call__ does with a request
MoltenOuts == {Ret("body"), Exc("ValueError"), Exc("KeyError")}

\* what the pyramid handler does with a request
PyramidOuts ==
    { Resp("ok", 200, "hOk"), Resp("missing", 404, "hMiss"),
      HttpExc("HTTPFound", 302, "hLoc"), Exc("ZeroDivisionError") }

\* what RendererHelper.render does
RenderOuts == {Ret("html"), Exc("KeyError")}

NoRoute == [name |-> <<>>, pattern |-> <<>>]

Routes == {[name |-> <<"items">>, pattern |-> <<"/items/{id}">>]}

\* values of the datadog_trace_enabled setting
TraceEnabledSettings == {"unset", "true", "false"}

\* values of the datadog_distributed_tracing setting
DistributedSettings == {"unset", "true", "false"}

\* the trace context carried by the headers of an inbound request
NoCtx == "none"

InboundHeaders == {NoCtx, "remote"}

\* molten/patch.py:90  resource = func_name(wrapped)
FuncName == <<"molten.app.App.__call__">>

\* pyramid/trace.py:80  resource="404"
Pyramid404 == <<"404">>

\* pyramid/trace.py:108  status = 500
FatalStatus == 500

\* ------------------------------------------------------------------- state
VARIABLES
    tracerEnabled,  \* ddtrace.tracer.enabled, which pin.enabled() reads
    molten,         \* the molten module: _datadog_patch, its pin, the wrapped entry points
    app,            \* the molten application instance
    pyramid,        \* what trace_tween_factory returned for the pyramid application
    req             \* per worker: the request in flight, its span and its callbacks

vars == <<tracerEnabled, molten, app, pyramid, req>>

NoSpan ==
    [ opened |-> 0, closed |-> 0, resource |-> <<>>, route |-> <<>>, pattern |-> <<>>,
      method |-> "-", status |-> NoCode, respHeaders |-> "-", error |-> FALSE,
      parent |-> NoCtx, assigned |-> 0 ]

IdleReq ==
    [ fw |-> "none", pc |-> "idle", entryEnabled |-> FALSE, traced |-> FALSE, method |-> "-",
      wrappedCalls |-> 0, calledWith |-> "-", wrappedOut |-> NoOut, callerOut |-> NoOut,
      matched |-> NoRoute, ddTracer |-> FALSE, span |-> NoSpan,
      carried |-> NoCtx, extracted |-> 0,
      shimCalls |-> 0, emitCalls |-> 0,
      lastShim |-> [args |-> NoArgs, out |-> NoOut, enabled |-> FALSE, tagged |-> FALSE],
      lastEmit |-> [args |-> NoArgs, out |-> NoOut],
      renderCalls |-> 0, funcCalls |-> 0,
      lastRender |-> [funcOut |-> NoOut, out |-> NoOut, traced |-> FALSE],
      nested |-> [opened |-> 0, closed |-> 0, errors |-> 0] ]

NoApp == [inited |-> FALSE, pinAtInit |-> FALSE, initCalls |-> 0, router |-> 0,
          middleware |-> <<>>, components |-> <<>>, renderers |-> <<>>,
          built |-> <<0, 0, 0>>]

\* the molten module before patch(); distributed is config.molten.distributed_tracing,
\* read from DD_MOLTEN_DISTRIBUTED_TRACING when the integration is imported
Unpatched(distributed) ==
    [patched |-> FALSE, pin |-> FALSE, initWraps |-> 0, callWraps |-> 0,
     distributed |-> distributed]

\* pyramid before includeme: renderWraps counts the wrappers around
\* RendererHelper.render
NoTween == [tween |-> "none", enabled |-> FALSE, distributed |-> FALSE, renderWraps |-> 0]

Init ==
    /\ tracerEnabled \in BOOLEAN
    /\ molten = Unpatched(TRUE)
    /\ app = NoApp
    /\ pyramid = NoTween
    /\ req = [r \in Workers |-> IdleReq]

\* span.resource = text, on a span that exists; assigned counts these assignments
SetResource(span, text) == [span EXCEPT !.resource = text, !.assigned = @ + 1]

\* --------------------------------------------------- tracer collaborator
\* tracer.trace(name, resource=...) entered as a scope: one span is opened
StartSpan(resource) == [NoSpan EXCEPT !.opened = 1, !.resource = resource]

\* leaving the scope of tracer.trace(): the span is finished on every path,
\* and an exception passing through the scope leaves its error marker on it
ScopeExit(span, out) ==
    [span EXCEPT !.closed = @ + 1, !.error = @ \/ Raised(out)]

\* trace_utils.set_http_meta(span, cfg, status_code=code): a given status code
\* is recorded on the span as given; None records nothing
SetStatusCode(span, code) ==
    IF code = NoCode THEN span ELSE [span EXCEPT !.status = code]

\* trace_utils.activate_distributed_headers: with distributed tracing disabled
\* the headers are not looked at; otherwise the context they carry is extracted
\* and made the active context
ActivateDistributedHeaders(enabled, headers) ==
    IF enabled THEN [extracted |-> 1, active |-> headers]
    ELSE [extracted |-> 0, active |-> NoCtx]

\* tracer.trace() makes the new span a child of the context that is active
ChildOf(span, active) == [span EXCEPT !.parent = active]

\* WrapperRouter.match on a matched route: with the pin enabled and a request
\* span open, the route tags are set and the resource becomes "{method} {name}"
RouterResolve(span, method, route, enabled) ==
    IF enabled /\ span.opened > 0 /\ span.closed = 0
    THEN [SetResource(span, Format(method, route.name))
             EXCEPT !.route = route.name, !.pattern = route.pattern]
    ELSE span

\* ------------------------------------------------------------ molten patch
\* Pin.get_from(molten) is present and pin.enabled()
PinEnabled == molten.pin /\ tracerEnabled

\* The process serves one web framework: a molten application, or a pyramid
\* application once its tween has been built.
ServesMolten == pyramid = NoTween

ServesPyramid == ~molten.patched /\ ~app.inited

\* patch() without the _datadog_patch check of lines 51-52
patch_unguarded ==
    /\ ServesMolten
    /\ molten' = [molten EXCEPT !.patched = TRUE, !.pin = TRUE,
                                !.initWraps = @ + 1,
                                !.callWraps = @ + 1]
    /\ UNCHANGED <<tracerEnabled, app, pyramid, req>>

\* patch(): guarded by _datadog_patch
patch ==
    /\ ServesMolten
    /\ molten' = IF molten.patched THEN molten
                 ELSE [molten EXCEPT !.patched = TRUE, !.pin = TRUE,
                                     !.initWraps = @ + 1,
                                     !.callWraps = @ + 1]
    /\ UNCHANGED <<tracerEnabled, app, pyramid, req>>

\* _u(cls, name): unwrap one layer if the attribute is wrapped
Unwrap(n) == IF n > 0 THEN n - 1 ELSE n

\* unpatch(): guarded by _datadog_patch
unpatch ==
    /\ molten' = IF molten.patched
                 THEN [molten EXCEPT !.patched = FALSE, !.pin = FALSE,
                                     !.initWraps = Unwrap(@),
                                     !.callWraps = Unwrap(@)]
                 ELSE molten
    /\ UNCHANGED <<tracerEnabled, app, pyramid, req>>

\* the host program switches the tracer on or off
set_enabled(b) ==
    /\ tracerEnabled # b
    /\ tracerEnabled' = b
    /\ UNCHANGED <<molten, app, pyramid, req>>

\* ---------------------------------------------------------- patch_app_init
\* what the original BaseApp.__init__ builds: nothing wrapped yet
OriginalInit(nm, nc, nr) ==
    [ inited |-> TRUE, pinAtInit |-> FALSE, initCalls |-> 1, router |-> 0,
      middleware |-> [i \in 1..nm |-> [id |-> i, wraps |-> 0]],
      components |-> [i \in 1..nc |-> [id |-> i, wraps |-> 0]],
      renderers |-> [i \in 1..nr |-> [id |-> i, wraps |-> 0]],
      built |-> <<0, 0, 0>> ]

\* the list comprehension building its result back to front
WrapEachReversed(list) ==
    [i \in 1..Len(list) |-> [list[Len(list) + 1 - i] EXCEPT !.wraps = @ + 1]]

\* [Wrapper(x) for x in list]
WrapEach(list) == [i \in 1..Len(list) |-> [list[i] EXCEPT !.wraps = @ + 1]]

\* the pin check of patch_app_init left out
WrapInstanceUnchecked(a, enabled) ==
    [a EXCEPT !.router = @ + 1,
              !.middleware = WrapEach(@),
              !.components = WrapEach(@),
              !.renderers = WrapEach(@)]

\* patch_app_init after wrapped(*args, **kwargs) has run: a, the built instance
WrapInstance(a, enabled) ==
    IF ~enabled THEN a
    ELSE [a EXCEPT !.router = @ + 1,
                   !.middleware = WrapEach(@),
                   !.components = WrapEach(@),
                   !.renderers = WrapEach(@)]

\* BaseApp.__init__ as installed: the original under initWraps layers of patch_app_init
RECURSIVE InitLayers(_, _, _)
InitLayers(a, layers, enabled) ==
    IF layers = 0 THEN a ELSE WrapInstance(InitLayers(a, layers - 1, enabled), enabled)

app_init(nm, nc, nr) ==
    /\ ServesMolten
    /\ ~app.inited
    /\ app' = [InitLayers(OriginalInit(nm, nc, nr), molten.initWraps, PinEnabled)
                 EXCEPT !.pinAtInit = molten.initWraps > 0 /\ PinEnabled,
                        !.built = <<nm, nc, nr>>]
    /\ UNCHANGED <<tracerEnabled, molten, pyramid, req>>

\* ---------------------------------------------------------- patch_app_call
\* patch_app_call up to and including the call of wrapped
\* lines 93-95 and 97-102 in the other order: the span is opened before the
\* inbound context is activated
AppCallBeginSpanFirst(method, headers, distributed, enabled) ==
    IF ~enabled
    THEN [IdleReq EXCEPT !.fw = "molten", !.pc = "run", !.method = method,
                         !.carried = headers,
                         !.wrappedCalls = 1, !.calledWith = "orig"]
    ELSE LET act == ActivateDistributedHeaders(distributed, headers)
         IN  [IdleReq EXCEPT !.fw = "molten", !.pc = "run", !.method = method,
                             !.carried = headers, !.extracted = act.extracted,
                             !.traced = TRUE,
                             !.span = [ChildOf(StartSpan(FuncName), NoCtx)
                                          EXCEPT !.method = method],
                             !.wrappedCalls = 1, !.calledWith = "shim"]

\* headers: the trace context the request carries; distributed: config.molten's flag
AppCallBegin(method, headers, distributed, enabled) ==
    IF ~enabled
    THEN [IdleReq EXCEPT !.fw = "molten", !.pc = "run", !.method = method,
                         !.carried = headers,
                         !.wrappedCalls = 1, !.calledWith = "orig"]
    ELSE LET act == ActivateDistributedHeaders(distributed, headers)
         IN  [IdleReq EXCEPT !.fw = "molten", !.pc = "run", !.method = method,
                             !.carried = headers, !.extracted = act.extracted,
                             !.traced = TRUE,
                             !.span = [ChildOf(StartSpan(FuncName), act.active)
                                          EXCEPT !.method = method],
                             !.wrappedCalls = 1, !.calledWith = "shim"]

patch_app_call_enter(r, method, headers) ==
    /\ req[r].pc = "idle"
    /\ app.inited
    /\ molten.callWraps > 0
    /\ req' = [req EXCEPT ![r] = [AppCallBegin(method, headers, molten.distributed, PinEnabled)
                                     EXCEPT !.entryEnabled = PinEnabled]]
    /\ UNCHANGED <<tracerEnabled, molten, app, pyramid>>

\* the route check of line 129 inverted: the resource is overwritten only once
\* the route tag is set
ShimUpdateInverted(span, method, code) ==
    LET named == IF span.route # <<>>
                 THEN SetResource(span, Format(method, CodeText(code)))
                 ELSE span
    IN  SetStatusCode(named, code)

\* the route check of line 129 left out: the resource is always overwritten
ShimUpdateAlways(span, method, code) ==
    SetStatusCode(SetResource(span, Format(method, CodeText(code))), code)

\* _w_start_response, lines 129-133: the update of the request span
ShimUpdate(span, method, code) ==
    LET named == IF span.route = <<>>
                 THEN SetResource(span, Format(method, CodeText(code)))
                 ELSE span
    IN  SetStatusCode(named, code)

\* return wrapped(*args, **kwargs): start_response is called and its outcome passed on
ShimForward(q, args, out) ==
    [q EXCEPT !.emitCalls = @ + 1,
              !.lastEmit = [args |-> args, out |-> out],
              !.lastShim.out = out]

\* start_response called before the span is updated: its exception skips the update
ShimCallEmitFirst(q, args, out, enabled) ==
    LET code == ParseCode(args.status)
        called == [q EXCEPT !.shimCalls = @ + 1,
                            !.lastShim = [args |-> args, out |-> NoOut, enabled |-> enabled,
                                          tagged |-> q.span.route # <<>>]]
    IN  IF ~enabled \/ Raised(out) THEN ShimForward(called, args, out)
        ELSE ShimForward([called EXCEPT !.span = ShimUpdate(@, q.method, code)], args, out)

\* _w_start_response(status, headers, exc_info); out is what start_response does
ShimCall(q, args, out, enabled) ==
    LET code == ParseCode(args.status)
        called == [q EXCEPT !.shimCalls = @ + 1,
                            !.lastShim = [args |-> args, out |-> NoOut, enabled |-> enabled,
                                          tagged |-> q.span.route # <<>>]]
    IN  IF ~enabled THEN ShimForward(called, args, out)
        ELSE IF code = RaisedCode THEN [called EXCEPT !.lastShim.out = Exc("ValueError")]
        ELSE ShimForward([called EXCEPT !.span = ShimUpdate(@, q.method, code)], args, out)

\* the shim updating whichever span is current in the process instead of the
\* span its closure captured
w_start_response_current(r, args, out) ==
    /\ req[r].fw = "molten"
    /\ req[r].pc \in {"run", "done"}
    /\ req[r].calledWith = "shim"
    /\ req[r].shimCalls < MaxEmit
    /\ \E t \in {w \in DOMAIN req : req[w].span.opened = 1} :
           LET own == ShimCall(req[r], args, out, PinEnabled)
               code == ParseCode(args.status)
           IN  req' = [[req EXCEPT ![r] = [own EXCEPT !.span = req[r].span]]
                          EXCEPT ![t].span = IF PinEnabled /\ code # RaisedCode
                                             THEN ShimUpdate(@, req[r].method, code)
                                             ELSE @]
    /\ UNCHANGED <<tracerEnabled, molten, app, pyramid>>

w_start_response(r, args, out) ==
    /\ req[r].fw = "molten"
    /\ req[r].pc \in {"run", "done"}
    /\ req[r].calledWith = "shim"
    /\ req[r].shimCalls < MaxEmit
    /\ req' = [req EXCEPT ![r] = ShimCall(@, args, out, PinEnabled)]
    /\ UNCHANGED <<tracerEnabled, molten, app, pyramid>>

\* the router of the application matches the request
molten_route(r, route) ==
    /\ req[r].fw = "molten"
    /\ req[r].pc = "run"
    /\ req[r].matched = NoRoute
    /\ req' = [req EXCEPT ![r].matched = route,
                          ![r].span = RouterResolve(@, req[r].method, route,
                                                    app.router > 0 /\ PinEnabled)]
    /\ UNCHANGED <<tracerEnabled, molten, app, pyramid>>

\* the span finished after the call instead of by a scope: a raise skips the finish
AppCallEndLeak(q, out) ==
    [q EXCEPT !.pc = "done", !.wrappedOut = out, !.callerOut = out,
              !.span = IF q.traced /\ ~Raised(out) THEN ScopeExit(@, out) ELSE @]

\* patch_app_call from the outcome of wrapped to its own outcome
AppCallEnd(q, out) ==
    [q EXCEPT !.pc = "done", !.wrappedOut = out, !.callerOut = out,
              !.span = IF q.traced THEN ScopeExit(@, out) ELSE @]

patch_app_call_exit(r, out) ==
    /\ req[r].fw = "molten"
    /\ req[r].pc = "run"
    /\ req' = [req EXCEPT ![r] = AppCallEnd(@, out)]
    /\ UNCHANGED <<tracerEnabled, molten, app, pyramid>>

\* the worker takes up its next request
next_request(r) ==
    /\ req[r].pc = "done"
    /\ req' = [req EXCEPT ![r] = IdleReq]
    /\ UNCHANGED <<tracerEnabled, molten, app, pyramid>>

\* ----------------------------------------------------------- pyramid trace
\* asbool(settings.get(SETTINGS_TRACE_ENABLED, tracer.enabled))
TraceEnabled(setting) ==
    IF setting = "unset" THEN tracerEnabled ELSE setting = "true"

\* trace_tween_factory(handler, registry): the tween it returns
TweenFor(enabled) == IF enabled THEN "trace_tween" ELSE "handler"

\* asbool(settings.get(SETTINGS_DISTRIBUTED_TRACING, True))
DistributedTracing(setting) ==
    IF setting = "unset" THEN TRUE ELSE setting = "true"

\* includeme(config): add_tween registers trace_tween_factory, and
\* RendererHelper.render is wrapped unless it is wrapped already
includeme ==
    /\ ServesPyramid
    /\ pyramid' = [pyramid EXCEPT !.renderWraps = IF @ > 0 THEN @ ELSE @ + 1]
    /\ UNCHANGED <<tracerEnabled, molten, app, req>>

\* pyramid calls the registered factory when it builds the application
trace_tween_factory(setting, dsetting) ==
    /\ ServesPyramid
    /\ pyramid.renderWraps > 0
    /\ pyramid.tween = "none"
    /\ pyramid' = [pyramid EXCEPT !.tween = TweenFor(TraceEnabled(setting)),
                                  !.enabled = TraceEnabled(setting),
                                  !.distributed = DistributedTracing(dsetting)]
    /\ UNCHANGED <<tracerEnabled, molten, app, req>>

\* the tween up to and including the call of handler(request)
\* line 80 with a resource built from the request method instead of "404"
TweenBeginUnmatched(method, headers, distributed, tween) ==
    IF tween = "handler"
    THEN [IdleReq EXCEPT !.fw = "pyramid", !.pc = "run", !.method = method,
                         !.carried = headers,
                         !.wrappedCalls = 1, !.calledWith = "orig"]
    ELSE LET act == ActivateDistributedHeaders(distributed, headers)
         IN  [IdleReq EXCEPT !.fw = "pyramid", !.pc = "run", !.method = method,
                             !.carried = headers, !.extracted = act.extracted,
                             !.traced = TRUE, !.ddTracer = TRUE,
                             !.span = ChildOf(StartSpan(Format(method, <<"unmatched">>)),
                                              act.active),
                             !.wrappedCalls = 1, !.calledWith = "orig"]

\* headers: the trace context the request carries; distributed: the override
\* the factory computed from the settings
TweenBegin(method, headers, distributed, tween) ==
    IF tween = "handler"
    THEN [IdleReq EXCEPT !.fw = "pyramid", !.pc = "run", !.method = method,
                         !.carried = headers,
                         !.wrappedCalls = 1, !.calledWith = "orig"]
    ELSE LET act == ActivateDistributedHeaders(distributed, headers)
         IN  [IdleReq EXCEPT !.fw = "pyramid", !.pc = "run", !.method = method,
                             !.carried = headers, !.extracted = act.extracted,
                             !.traced = TRUE, !.ddTracer = TRUE,
                             !.span = ChildOf(StartSpan(Pyramid404), act.active),
                             !.wrappedCalls = 1, !.calledWith = "orig"]

trace_tween_enter(r, method, headers) ==
    /\ req[r].pc = "idle"
    /\ pyramid.tween # "none"
    /\ req' = [req EXCEPT ![r] = [TweenBegin(method, headers, pyramid.distributed, pyramid.tween)
                                     EXCEPT !.entryEnabled = pyramid.enabled]]
    /\ UNCHANGED <<tracerEnabled, molten, app, pyramid>>

\* pyramid's router sets request.matched_route
pyramid_route(r, route) ==
    /\ req[r].fw = "pyramid"
    /\ req[r].pc = "run"
    /\ req[r].matched = NoRoute
    /\ req' = [req EXCEPT ![r].matched = route]
    /\ UNCHANGED <<tracerEnabled, molten, app, pyramid>>

\* a render wrapper that swallows what func raises and returns None
RenderCallSwallow(q, withRequest, out) ==
    [q EXCEPT !.renderCalls = @ + 1,
              !.funcCalls = @ + 1,
              !.lastRender = [funcOut |-> out,
                              out |-> IF Raised(out) THEN Ret("None") ELSE out,
                              traced |-> withRequest /\ q.ddTracer]]

\* trace_render(func, instance, args, kwargs); out is what func does
RenderCall(q, withRequest, out) ==
    LET traced == withRequest /\ q.ddTracer
    IN  [q EXCEPT !.renderCalls = @ + 1,
                  !.funcCalls = @ + 1,
                  !.nested = IF traced
                             THEN [opened |-> @.opened + 1, closed |-> @.closed + 1,
                                   errors |-> @.errors + (IF Raised(out) THEN 1 ELSE 0)]
                             ELSE @,
                  !.lastRender = [funcOut |-> out, out |-> out, traced |-> traced]]

\* render runs inside the handler; code that runs after the tween has returned
\* (an outer tween, a response callback) can render with the same request too
trace_render(r, withRequest, out) ==
    /\ req[r].fw = "pyramid"
    /\ pyramid.renderWraps > 0
    /\ req[r].pc \in {"run", "done"}
    /\ req[r].renderCalls < MaxRender
    /\ req' = [req EXCEPT ![r] = RenderCall(@, withRequest, out)]
    /\ UNCHANGED <<tracerEnabled, molten, app, pyramid>>

\* trace_tween lines 95-109: the status the except clauses leave
ExceptStatus(out) == IF out.kind = "exc" THEN IntCode(FatalStatus) ELSE NoCode

\* the finally block naming the resource after the status instead of the route
TweenFinallyByStatus(span, q, out) ==
    LET hasResponse == out.kind \in {"ret", "http"}
        status == IF hasResponse THEN IntCode(out.code) ELSE ExceptStatus(out)
        meta == [SetResource(span, Format(q.method, CodeText(status)))
                    EXCEPT   !.route = q.matched.name,
                             !.method = q.method,
                             !.respHeaders = IF hasResponse THEN out.headers ELSE "-",
                             !.pattern = q.matched.pattern]
    IN  SetStatusCode(meta, status)

\* the finally block without line 113: the route names the resource but the
\* route-name tag is not set
TweenFinallyUntagged(span, q, out) ==
    LET hasResponse == out.kind \in {"ret", "http"}
        routed == IF q.matched # NoRoute
                  THEN SetResource(span, Format(q.method, q.matched.name))
                  ELSE span
        status == IF hasResponse THEN IntCode(out.code) ELSE ExceptStatus(out)
        meta == [routed EXCEPT !.method = q.method,
                               !.respHeaders = IF hasResponse THEN out.headers ELSE "-",
                               !.pattern = q.matched.pattern]
    IN  SetStatusCode(meta, status)

\* trace_tween lines 110-132: the finally block
TweenFinally(span, q, out) ==
    LET hasResponse == out.kind \in {"ret", "http"}
        routed == IF q.matched # NoRoute
                  THEN [SetResource(span, Format(q.method, q.matched.name))
                           EXCEPT !.route = q.matched.name]
                  ELSE span
        status == IF hasResponse THEN IntCode(out.code) ELSE ExceptStatus(out)
        meta == [routed EXCEPT !.method = q.method,
                               !.respHeaders = IF hasResponse THEN out.headers ELSE "-",
                               !.pattern = q.matched.pattern]
    IN  SetStatusCode(meta, status)

\* the tween with its span finished only after a normal return
TweenEndLeak(q, out) ==
    [q EXCEPT !.pc = "done", !.wrappedOut = out, !.callerOut = out,
              !.span = IF q.traced /\ ~Raised(out)
                       THEN ScopeExit(TweenFinally(@, q, out), out) ELSE @]

\* the tween from the outcome of handler(request) to its own outcome
TweenEnd(q, out) ==
    [q EXCEPT !.pc = "done", !.wrappedOut = out, !.callerOut = out,
              !.span = IF q.traced THEN ScopeExit(TweenFinally(@, q, out), out) ELSE @]

trace_tween_exit(r, out) ==
    /\ req[r].fw = "pyramid"
    /\ req[r].pc = "run"
    /\ req' = [req EXCEPT ![r] = TweenEnd(@, out)]
    /\ UNCHANGED <<tracerEnabled, molten, app, pyramid>>

\* ------------------------------------------------------------ specification
Next ==
    \/ patch
    \/ unpatch
    \/ \E b \in BOOLEAN : set_enabled(b)
    \/ \E nm \in 0..MaxList, nc \in 0..MaxList, nr \in 0..MaxList : app_init(nm, nc, nr)
    \/ \E r \in DOMAIN req, m \in Methods : patch_app_call_enter(r, m, NoCtx)
    \/ \E r \in DOMAIN req, a \in ShimArgs, o \in EmitOuts : w_start_response(r, a, o)
    \/ \E r \in DOMAIN req, rt \in Routes : molten_route(r, rt)
    \/ \E r \in DOMAIN req, o \in MoltenOuts : patch_app_call_exit(r, o)
    \/ includeme
    \/ \E s \in TraceEnabledSettings : trace_tween_factory(s, "unset")
    \/ \E r \in DOMAIN req, m \in Methods : trace_tween_enter(r, m, NoCtx)
    \/ \E r \in DOMAIN req, rt \in Routes : pyramid_route(r, rt)
    \/ \E r \in DOMAIN req, w \in BOOLEAN, o \in RenderOuts : trace_render(r, w, o)
    \/ \E r \in DOMAIN req, o \in PyramidOuts : trace_tween_exit(r, o)
    \/ \E r \in DOMAIN req : next_request(r)

Spec == Init /\ [][Next]_vars

\* ------------------------------------------- distributed-tracing behaviours
\* Requests that carry trace headers, under every value of the two
\* distributed-tracing switches; the application is a bare one and the
\* callbacks of a request are left out.
InitDT ==
    /\ tracerEnabled \in BOOLEAN
    /\ molten \in {Unpatched(d) : d \in BOOLEAN}
    /\ app = NoApp
    /\ pyramid = NoTween
    /\ req = [r \in Workers |-> IdleReq]

NextDT ==
    \/ patch
    \/ \E b \in BOOLEAN : set_enabled(b)
    \/ app_init(0, 0, 0)
    \/ \E r \in DOMAIN req, m \in Methods, h \in InboundHeaders : patch_app_call_enter(r, m, h)
    \/ \E r \in DOMAIN req, o \in MoltenOuts : patch_app_call_exit(r, o)
    \/ includeme
    \/ \E s \in TraceEnabledSettings, d \in DistributedSettings : trace_tween_factory(s, d)
    \/ \E r \in DOMAIN req, m \in Methods, h \in InboundHeaders : trace_tween_enter(r, m, h)
    \/ \E r \in DOMAIN req, o \in PyramidOuts : trace_tween_exit(r, o)
    \/ \E r \in DOMAIN req : next_request(r)

SpecDT == InitDT /\ [][NextDT]_vars

\* -------------------------------------------- application construction
\* Applications with up to MaxBuilt middleware, components and renderers,
\* constructed under every state of the patch and of the tracer.
InitApp == Init

NextApp ==
    \/ patch
    \/ unpatch
    \/ \E b \in BOOLEAN : set_enabled(b)
    \/ \E nm \in 0..MaxBuilt, nc \in 0..MaxBuilt, nr \in 0..MaxBuilt : app_init(nm, nc, nr)

SpecApp == InitApp /\ [][NextApp]_vars

\* ---------------------------------------------------- concurrent behaviours
\* Two workers serve requests at the same time, each running its own call of
\* patch_app_call or trace_tween. The process is taken after its set-up:
\* molten patched and the application constructed with the tracer enabled, or
\* the pyramid tween built with tracing enabled.
ConcWorkers == {"w1", "w2"}

MoltenReady ==
    /\ molten = [Unpatched(TRUE) EXCEPT !.patched = TRUE, !.pin = TRUE,
                                        !.initWraps = 1, !.callWraps = 1]
    /\ app = [InitLayers(OriginalInit(0, 0, 0), 1, TRUE) EXCEPT !.pinAtInit = TRUE]
    /\ pyramid = NoTween

PyramidReady ==
    /\ molten = Unpatched(TRUE)
    /\ app = NoApp
    /\ pyramid = [tween |-> TweenFor(TRUE), enabled |-> TRUE, distributed |-> TRUE,
                  renderWraps |-> 1]

InitConc ==
    /\ tracerEnabled = TRUE
    /\ MoltenReady \/ PyramidReady
    /\ req = [r \in ConcWorkers |-> IdleReq]

\* the two workers serve different requests, so that a value taken from the
\* other worker's request shows
ConcRequest ==
    [ w1 |-> [method |-> "GET",
              args |-> [status |-> S200, headers |-> "h1", exc_info |-> "None"]],
      w2 |-> [method |-> "POST",
              args |-> [status |-> S404, headers |-> "h1", exc_info |-> "None"]] ]

NextConc ==
    \/ \E r \in DOMAIN req : patch_app_call_enter(r, ConcRequest[r].method, NoCtx)
    \/ \E r \in DOMAIN req : w_start_response(r, ConcRequest[r].args, Ret("write"))
    \/ \E r \in DOMAIN req, rt \in Routes : molten_route(r, rt)
    \/ \E r \in DOMAIN req, o \in MoltenOuts : patch_app_call_exit(r, o)
    \/ \E r \in DOMAIN req : trace_tween_enter(r, ConcRequest[r].method, NoCtx)
    \/ \E r \in DOMAIN req, rt \in Routes : pyramid_route(r, rt)
    \/ \E r \in DOMAIN req, o \in RenderOuts : trace_render(r, TRUE, o)
    \/ \E r \in DOMAIN req, o \in PyramidOuts : trace_tween_exit(r, o)
    \/ \E r \in DOMAIN req : next_request(r)

SpecConc == InitConc /\ [][NextConc]_vars

\* ------------------------------------------------------------------ claims
\* the requests whose span is the subject of a claim
Traced(r) == req[r].fw # "none" /\ req[r].entryEnabled

\* C1: a request entered with tracing enabled opens exactly one request span;
\* the span is open while the handler runs and has been closed exactly once
\* after it, whether the handler returned, raised a valid-response exception
\* or raised anything else.
C1_OneSpanOneClose ==
    \A r \in DOMAIN req :
        Traced(r) =>
            /\ req[r].span.opened = 1
            /\ req[r].pc = "run" => req[r].span.closed = 0
            /\ req[r].pc = "done" => req[r].span.closed = 1

C1_Witness ==
    \E r \in DOMAIN req :
        /\ Traced(r) /\ req[r].fw = "pyramid" /\ req[r].pc = "done"
        /\ req[r].wrappedOut.kind = "http"
        /\ req[r].span.opened = 1 /\ req[r].span.closed = 1

WrappedEntities(a) ==
    {<<"middleware", i>> : i \in {j \in 1..Len(a.middleware) : a.middleware[j].wraps > 0}}
    \cup {<<"components", i>> : i \in {j \in 1..Len(a.components) : a.components[j].wraps > 0}}
    \cup {<<"renderers", i>> : i \in {j \in 1..Len(a.renderers) : a.renderers[j].wraps > 0}}
    \cup (IF a.router > 0 THEN {<<"router", 1>>} ELSE {})

\* C3: with tracing disabled or the pin absent no entry point creates a span:
\* the application call and the tween built by the factory call the wrapped
\* callable once with the original arguments and end as it ended, the
\* start_response shim calls start_response once with its own arguments and
\* ends as it ended, and application init runs the original initializer once
\* and wraps nothing.
C3_DisabledIsPassthrough ==
    /\ \A r \in DOMAIN req :
           req[r].fw # "none" /\ ~req[r].entryEnabled =>
               /\ req[r].span = NoSpan
               /\ req[r].nested.opened = 0
               /\ req[r].wrappedCalls = 1
               /\ req[r].calledWith = "orig"
               /\ req[r].pc = "done" => req[r].callerOut = req[r].wrappedOut
    /\ \A r \in DOMAIN req :
           req[r].shimCalls > 0 /\ ~req[r].lastShim.enabled =>
               /\ req[r].emitCalls = req[r].shimCalls
               /\ req[r].lastEmit.args = req[r].lastShim.args
               /\ req[r].lastShim.out = req[r].lastEmit.out
    /\ app.inited /\ ~app.pinAtInit =>
           app.initCalls = 1 /\ WrappedEntities(app) = {}
    /\ pyramid.tween # "none" /\ ~pyramid.enabled => pyramid.tween = "handler"

C3_Witness ==
    \E r \in DOMAIN req :
        /\ req[r].fw = "molten" /\ ~req[r].entryEnabled /\ req[r].pc = "done"
        /\ Raised(req[r].callerOut)
        /\ molten.patched /\ app.inited /\ ~app.pinAtInit
        /\ Len(app.middleware) > 0 /\ Len(app.renderers) > 0

\* C4 as claimed: after the handler raised an exception that is no valid
\* response, the request span is errored, its status code is 500, it has been
\* closed and the caller got the same exception.
C4_AsClaimed ==
    \A r \in DOMAIN req :
        Traced(r) /\ req[r].pc = "done" /\ req[r].wrappedOut.kind = "exc" =>
            /\ req[r].span.error
            /\ req[r].span.status = IntCode(FatalStatus)
            /\ req[r].span.closed = 1
            /\ req[r].callerOut = req[r].wrappedOut

\* C5 as claimed: after the pyramid handler raised an HTTPException, its status
\* code and headers are on the request span, the caller got the same
\* exception, and the span is not marked as error.
C5_AsClaimed ==
    \A r \in DOMAIN req :
        Traced(r) /\ req[r].fw = "pyramid" /\ req[r].pc = "done"
        /\ req[r].wrappedOut.kind = "http" =>
            /\ req[r].span.status = IntCode(req[r].wrappedOut.code)
            /\ req[r].span.respHeaders = req[r].wrappedOut.headers
            /\ req[r].callerOut = req[r].wrappedOut
            /\ ~req[r].span.error

\* C6: a molten request whose handler raised without start_response ever being
\* called leaves its span closed exactly once, with the error marker set, and
\* no span open.
C6_AbortedStillCloses ==
    \A r \in DOMAIN req :
        Traced(r) /\ req[r].fw = "molten" /\ req[r].pc = "done"
        /\ req[r].shimCalls = 0 /\ Raised(req[r].wrappedOut) =>
            /\ req[r].span.opened = 1
            /\ req[r].span.closed = 1
            /\ req[r].span.error

C6_Witness ==
    \E r \in DOMAIN req :
        /\ Traced(r) /\ req[r].fw = "molten" /\ req[r].pc = "done"
        /\ req[r].shimCalls = 0 /\ req[r].wrappedOut = Exc("KeyError")
        /\ req[r].span.closed = 1 /\ req[r].span.error

\* C7: every wrapper ends as the callable it wraps ended: the application call
\* and the tween as the handler, the start_response shim as start_response,
\* the render wrapper as render; the same exception when it raised, the same
\* value when it returned.
C7_Transparent ==
    \A r \in DOMAIN req :
        /\ req[r].pc = "done" =>
               req[r].wrappedCalls = 1 /\ req[r].callerOut = req[r].wrappedOut
        /\ req[r].shimCalls > 0 =>
               req[r].emitCalls = req[r].shimCalls
               /\ req[r].lastShim.out = req[r].lastEmit.out
        /\ req[r].renderCalls > 0 =>
               req[r].funcCalls = req[r].renderCalls
               /\ req[r].lastRender.out = req[r].lastRender.funcOut

C7_Witness ==
    \E r \in DOMAIN req :
        /\ Traced(r) /\ req[r].fw = "pyramid" /\ req[r].pc = "done"
        /\ req[r].lastRender.traced /\ req[r].lastRender.out = Exc("KeyError")
        /\ req[r].callerOut = Exc("ZeroDivisionError")

\* C8: every call of the start_response shim calls start_response exactly once,
\* with the same (status, headers, exc_info), and ends as it ended, whether or
\* not the tracer is enabled, the status is an integer or the route is
\* resolved; the span update comes first, so it is there even when
\* start_response raised.
C8_ShimForwards ==
    \A r \in DOMAIN req :
        req[r].calledWith = "shim" =>
            /\ req[r].emitCalls = req[r].shimCalls
            /\ req[r].lastEmit.args = req[r].lastShim.args
            /\ req[r].lastEmit.out = req[r].lastShim.out
            /\ req[r].shimCalls > 0 /\ req[r].lastShim.enabled =>
                   req[r].span.status = ParseCode(req[r].lastShim.args.status)

C8_Witness ==
    \E r \in DOMAIN req :
        /\ req[r].shimCalls = 2 /\ req[r].emitCalls = 2
        /\ req[r].lastShim.enabled /\ req[r].lastShim.tagged
        /\ req[r].lastShim.args.status = SBad
        /\ req[r].lastShim.out = Exc("AssertionError")
        /\ req[r].span.status = StrCode(<<"a", "b", "c">>)

\* a step in which the start_response shim of worker r ran with tracing enabled
ShimStep(r) ==
    /\ req'[r].shimCalls = req[r].shimCalls + 1
    /\ req'[r].lastShim.enabled

\* C9: when the start_response shim runs on a span that carries the route tag
\* it leaves the resource name as it is; on a span without the tag it sets the
\* resource to "{method} {code}"; either way it records the status code.
C9_RouteWinsOverStatus ==
    [][\A r \in DOMAIN req :
           ShimStep(r) =>
               LET code == ParseCode(req'[r].lastShim.args.status)
               IN  /\ req[r].span.route # <<>> =>
                          req'[r].span.resource = req[r].span.resource
                   /\ req[r].span.route = <<>> =>
                          req'[r].span.resource = Format(req[r].method, CodeText(code))
                   /\ req'[r].span.status = code]_vars

C9_Witness ==
    \E r \in DOMAIN req :
        /\ req[r].pc = "run" /\ req[r].lastShim.enabled /\ req[r].lastShim.tagged
        /\ req[r].lastShim.args.status = S404
        /\ req[r].span.status = IntCode(404)
        /\ req[r].span.resource = <<"GET", " ", "items">>

\* C10: a status line whose first word is no integer does not make the shim
\* raise: the word itself is recorded as the status and used in the fallback
\* resource name, and start_response is still called; a first word that is an
\* integer is recorded as that integer.
C10_NonIntegerStatusTolerated ==
    \A r \in DOMAIN req :
        req[r].shimCalls > 0 /\ req[r].lastShim.enabled =>
            LET word == PartitionHead(req[r].lastShim.args.status, " ")
            IN  /\ req[r].lastShim.out # Exc("ValueError")
                /\ req[r].emitCalls = req[r].shimCalls
                /\ req[r].lastEmit.args = req[r].lastShim.args
                /\ ~IsIntText(word) =>
                       /\ req[r].span.status = StrCode(word)
                       /\ req[r].span.route = <<>> =>
                              req[r].span.resource = <<req[r].method, " ">> \o word
                /\ IsIntText(word) => req[r].span.status = IntCode(IntOf(word))

C10_Witness ==
    \E r \in DOMAIN req :
        /\ req[r].shimCalls > 0 /\ req[r].lastShim.enabled
        /\ req[r].lastShim.args.status = SBad
        /\ req[r].lastShim.out = Ret("write")
        /\ req[r].span.status = StrCode(<<"a", "b", "c">>)
        /\ req[r].span.resource = <<"POST", " ", "a", "b", "c">>

\* a step in which worker r stays with the request it is handling
SameRequest(r) == req[r].pc # "idle" /\ req'[r].pc # "idle"

\* C11 as claimed: within one request a nested span is opened only while the
\* request span is open (opened before it, not yet closed), and the request
\* span is closed only when every nested span has been closed.
C11_AsClaimed ==
    [][\A r \in DOMAIN req :
           SameRequest(r) =>
               /\ req'[r].nested.opened > req[r].nested.opened =>
                      req[r].span.opened = 1 /\ req[r].span.closed = 0
               /\ req'[r].span.closed > req[r].span.closed =>
                      req[r].nested.closed = req[r].nested.opened]_vars

\* C12 as claimed: a call of the response-emission callback that happens when
\* the request span is already closed leaves that span as it is: it is not
\* closed again and neither its resource nor its tags change.
C12_AsClaimed ==
    [][\A r \in DOMAIN req :
           /\ req'[r].shimCalls = req[r].shimCalls + 1
           /\ req[r].span.closed > 0
           => req'[r].span = req[r].span]_vars

\* the distributed-tracing switch that governs request r: config.molten's
\* flag in molten, the override computed by trace_tween_factory in pyramid
Distributed(r) ==
    IF req[r].fw = "molten" THEN molten.distributed ELSE pyramid.distributed

C14_AsClaimed ==
    \A r \in DOMAIN req :
        Traced(r) /\ req[r].span.closed > 0 =>
            /\ req[r].matched = NoRoute =>
                   req[r].span.route = <<>> /\ req[r].span.pattern = <<>>
            /\ req[r].matched # NoRoute =>
                   /\ req[r].span.route = req[r].matched.name
                   /\ req[r].span.pattern = req[r].matched.pattern

\* C14 amended: a closed request span of an unmatched request carries neither
\* tag, and tags that are set are the matched route's name and pattern. In
\* pyramid a matched request always closes with both tags. In molten the tags
\* need the router wrapper: an application whose router was not wrapped at
\* construction closes matched requests without them.
C14_RouteTags ==
    \A r \in DOMAIN req :
        Traced(r) /\ req[r].span.closed > 0 =>
            /\ req[r].matched = NoRoute =>
                   req[r].span.route = <<>> /\ req[r].span.pattern = <<>>
            /\ req[r].span.route # <<>> \/ req[r].span.pattern # <<>> =>
                   /\ req[r].matched # NoRoute
                   /\ req[r].span.route = req[r].matched.name
                   /\ req[r].span.pattern = req[r].matched.pattern
            /\ req[r].fw = "pyramid" /\ req[r].matched # NoRoute =>
                   req[r].span.route # <<>>
            /\ req[r].fw = "molten" /\ app.router = 0 =>
                   req[r].span.route = <<>>

\* a matched pyramid request has closed with the route's name and pattern
C14_Witness ==
    \E r \in DOMAIN req :
        /\ Traced(r)
        /\ req[r].fw = "pyramid"
        /\ req[r].span.closed = 1
        /\ req[r].matched \in Routes
        /\ req[r].span.route = req[r].matched.name
        /\ req[r].span.pattern = req[r].matched.pattern

\* C15 as claimed: after its creation a request span has its resource
\* assigned at most once, whatever route-resolution and response-emission
\* events the request sees.
C15_AsClaimed ==
    \A r \in DOMAIN req : req[r].span.assigned <= 1

\* C15 amended: once the route tag is set on the span its resource is never
\* assigned again. Pyramid assigns the resource at most once. Molten assigns it
\* again on every response-emission call while the route tag is not set, so
\* the assignments are bounded by the emission calls plus one for the route.
C15_ResourceAssignments ==
    [][\A r \in DOMAIN req :
           SameRequest(r) =>
               /\ req[r].span.route # <<>> =>
                      /\ req'[r].span.assigned = req[r].span.assigned
                      /\ req'[r].span.resource = req[r].span.resource
               /\ req'[r].fw = "pyramid" => req'[r].span.assigned <= 1
               /\ req'[r].fw = "molten" =>
                      req'[r].span.assigned <=
                          req'[r].shimCalls + (IF req'[r].span.route # <<>> THEN 1 ELSE 0)]_vars

\* the response-emission callback ran twice on an untagged span and assigned
\* the resource both times
C15_Witness ==
    \E r \in DOMAIN req :
        /\ req[r].fw = "molten"
        /\ req[r].shimCalls = 2
        /\ req[r].span.route = <<>>
        /\ req[r].span.assigned = 2

\* the resources a request span of worker r can carry when every value
\* written to it was taken from r's own request
OwnResources(r) ==
    { FuncName, Pyramid404,
      Format(req[r].method, req[r].matched.name),
      Format(req[r].method, CodeText(req[r].span.status)) }

\* C16: with two requests in flight, a step of one request (entry, route
\* resolution, response-emission shim, render, close-time update) changes
\* nothing of the other request, and what it writes to its span is computed
\* from its own request: the span's method and resource carry the method of
\* the request that owns the span.
C16_OwnSpanOnly ==
    [][\A r \in DOMAIN req :
           /\ req'[r] # req[r] =>
                  \A o \in DOMAIN req \ {r} : req'[o] = req[o]
           /\ req'[r].span.opened = 1 =>
                  /\ req'[r].span.method \in {"-", req'[r].method}
                  /\ req'[r].span.resource \in OwnResources(r)']_vars

\* both workers have a request span open, and the shim of one of them has
\* renamed its span while the other span still has its provisional resource
C16_Witness ==
    \E r \in DOMAIN req, o \in DOMAIN req :
        /\ r # o
        /\ req[r].span.opened = 1 /\ req[r].span.closed = 0
        /\ req[o].span.opened = 1 /\ req[o].span.closed = 0
        /\ req[r].shimCalls > 0
        /\ req[r].span.resource = Format(req[r].method, CodeText(req[r].span.status))
        /\ req[o].span.resource = FuncName

\* the entities of a list are the originals in their original order
InOrder(list, n) == Len(list) = n /\ \A i \in 1..n : list[i].id = i

\* every entity of a list is under exactly k wrappers
AllWrapped(list, k) == \A i \in 1..Len(list) : list[i].wraps = k

\* C17: a constructed application has had its original initializer run
\* exactly once; its middleware, components and renderers are the ones the
\* initializer built, in the same order and number; if the pin was enabled at
\* construction the router and every one of them is under exactly one wrapper,
\* otherwise under none. Nothing is wrapped twice.
C17_WrappedOnceInOrder ==
    app.inited =>
        /\ app.initCalls = 1
        /\ InOrder(app.middleware, app.built[1])
        /\ InOrder(app.components, app.built[2])
        /\ InOrder(app.renderers, app.built[3])
        /\ LET k == IF app.pinAtInit THEN 1 ELSE 0
           IN  /\ app.router = k
               /\ AllWrapped(app.middleware, k)
               /\ AllWrapped(app.components, k)
               /\ AllWrapped(app.renderers, k)

\* an application with two middleware, two components and two renderers was
\* constructed with the pin enabled
C17_Witness ==
    /\ app.inited
    /\ app.pinAtInit
    /\ app.built = <<2, 2, 2>>
    /\ app.router = 1
    /\ AllWrapped(app.middleware, 1)

\* the resource a request span is created with
Provisional(r) == IF req[r].fw = "molten" THEN FuncName ELSE Pyramid404

PatchConsistent ==
    /\ molten.initWraps <= 1
    /\ molten.callWraps <= 1
    /\ molten.patched <=> molten.pin
    /\ molten.patched <=> molten.initWraps = 1
    /\ molten.patched <=> molten.callWraps = 1
    /\ pyramid.renderWraps <= 1

\* C19: after any sequence of patch() and unpatch() calls each of
\* BaseApp.__init__ and App.__call__ is wrapped at most once, and is wrapped
\* and the pin present exactly when _datadog_patch is true. The module
\* changes only when the flag flips, so patch() on a patched module and
\* unpatch() on an unpatched one change nothing; and the step that clears the
\* flag leaves both entry points unwrapped and the pin removed.
C19_PatchIdempotent ==
    [][/\ PatchConsistent
       /\ PatchConsistent'
       /\ molten' # molten => molten'.patched # molten.patched
       /\ molten.patched /\ ~molten'.patched =>
              molten' = Unpatched(molten.distributed)]_vars

\* an application was constructed under the patch with the pin enabled, and
\* the module has been unpatched since: the entry points are unwrapped again
C19_Witness ==
    /\ app.inited
    /\ app.pinAtInit
    /\ ~molten.patched
    /\ ~molten.pin
    /\ molten.initWraps = 0
    /\ molten.callWraps = 0

====
